---- MODULE Spec2Model ----
(***************************************************************************)
(* A model of Shops.py: the Shop inventory model and its binary record,    *)
(* the "funny price" encoder, create_shops and the ShopSlotFill allocator. *)
(*                                                                         *)
(* The module holds several specifications over one set of variables; a   *)
(* specification leaves the variables of the other parts at their idle    *)
(* values.                                                                 *)
(*   SpecShop   : one Shop object under add/push/clear_inventory and       *)
(*                get_bytes                                                *)
(*   SpecPrice  : return_funny_price and shuffle_shops' adjust_item        *)
(*   SpecCreate : create_shops, one step per shop_table row                *)
(*   SpecFill   : one pass of ShopSlotFill over a small world              *)
(*   SpecRefill : ShopSlotFill run twice from the same state and seed      *)
(***************************************************************************)
EXTENDS Integers, Sequences, FiniteSets, TLC

VARIABLES
    \* ---- one Shop object (class Shop) ----
    inventory,   \* self.inventory: slot index 0..slots-1 -> entry or None
    shop,        \* the fields set at construction: type, room_id, shopkeeper_config, entrances
    bytes,       \* the list the last get_bytes call returned (<<>> when another call came after)
    last,        \* the last call made on the shop and its arguments
    nops,        \* number of calls made so far
    \* ---- the price encoder ----
    funny,       \* the last call of return_funny_price: its arguments, random draws and result
    entry,       \* a shop inventory entry before and after shuffle_shops' adjust_item
    \* ---- the world object ----
    world,       \* the world's options the code reads: keyshuffle, shop_shuffle, goal, mode, ...
    \* ---- create_shops ----
    cs,          \* create_shops' locals and results: pc, player_shop_table, num_slots,
                 \* single_purchase_slots, world.shops, world.dynamic_locations
    \* ---- ShopSlotFill ----
    locations,   \* the world's locations: id -> Location fields
    shops,       \* world.shops: region name -> the shop's inventory
    fill,        \* ShopSlotFill's locals: pc, candidates_per_sphere, cumu_weights, i, ...
    hist,        \* history of the pass: the state at its start, the swaps made, the random
                 \* draws made; and the result of the pass before, when it is run again
    \* ---- shuffle_shops ----
    upg          \* shuffle_shops' capacity-upgrade part: pc, new_items, the item pool, loop index

shopVars == <<inventory, shop, bytes, last, nops>>
priceVars == <<funny, entry>>
fillVars == <<locations, shops, fill, hist>>
vars == <<inventory, shop, bytes, last, nops, funny, entry, world, cs, locations, shops, fill, hist, upg>>

(***************************************************************************)
(* Bounds of the model.                                                    *)
(***************************************************************************)
\* number of method calls made on the shop object in one behaviour
MaxOps == 3

(***************************************************************************)
(* Python values.                                                          *)
(***************************************************************************)
\* Python's None in a slot of the inventory list
None == [none |-> TRUE]
\* Python's None where an item name (str) is expected
NoName == "<None>"
\* truth value of an Optional[str]: None and the empty string are falsy
Truthy(s) == s # NoName /\ s # ""

RECURSIVE BitOr(_, _)
\* Python's a | b on non-negative ints
BitOr(a, b) ==
    IF a = 0 THEN b
    ELSE IF b = 0 THEN a
    ELSE (IF a % 2 = 1 \/ b % 2 = 1 THEN 1 ELSE 0) + 2 * BitOr(a \div 2, b \div 2)

\* bit test used when a byte is decoded
HasBit(v, bit) == (v \div bit) % 2 = 1

(***************************************************************************)
(* Item names and Python's substring test on them.                         *)
(***************************************************************************)
\* the keys of Items.item_table the model uses
item_table == {"Red Potion", "Small Heart", "Apple", "Magic Jar", "Bombs (3)", "Bombs (10)", "Single Bomb",
               "Arrows (10)", "Single Arrow", "Rupees (20)", "Rupees (50)", "Bee", "Good Bee",
               "Nothing", "Piece of Heart", "Small Key (Universal)", "Blue Shield",
               "Bomb Upgrade (+5)"}

\* the words Shops.py looks for that occur in the item name (Python: word in item_name)
WordsIn(name) ==
    CASE name = "Small Heart"           -> {"Small Heart", "Heart"}
      [] name = "Apple"                 -> {"Apple"}
      [] name = "Magic Jar"             -> {"Magic Jar"}
      [] name = "Bombs (3)"             -> {"Bombs", "Bomb"}
      [] name = "Bombs (10)"            -> {"Bombs", "Bomb"}
      [] name = "Single Bomb"           -> {"Single Bomb", "Bomb"}
      [] name = "Arrows (10)"           -> {"Arrows", "Arrow"}
      [] name = "Single Arrow"          -> {"Single Arrow", "Arrow"}
      [] name = "Rupees (20)"           -> {"Rupees", "Rupee"}
      [] name = "Rupees (50)"           -> {"Rupees", "Rupee"}
      [] name = "Bee"                   -> {"Bee"}
      [] name = "Good Bee"              -> {"Bee"}
      [] name = "Piece of Heart"        -> {"Piece of Heart", "Heart"}
      [] name = "Small Key (Universal)" -> {"Small Key"}
      [] name = "Bomb Upgrade (+5)"     -> {"Bomb"}
      [] OTHER                          -> {}

\* Python: word in item_name
Contains(name, word) == word \in WordsIn(name)

Min(a, b) == IF a < b THEN a ELSE b
Max(a, b) == IF a > b THEN a ELSE b

(***************************************************************************)
(* price_blacklist, return_funny_price, shuffle_shops' price adjustment.   *)
(***************************************************************************)
\* random.random() is drawn from k / RandomSteps, k in 0 .. RandomSteps-1
RandomSteps == 4

\* my_price_types: the keys of price_blacklist in dict order
my_price_types == <<"rupee", "heart", "magic", "bomb", "arrow", "ch", "cb", "ca", "keys", "potion">>

PriceTypes == {my_price_types[k] : k \in 1 .. Len(my_price_types)}

\* my_price_types.index(p)
type_index(p) == (CHOOSE k \in 1 .. Len(my_price_types) : my_price_types[k] = p) - 1

price_blacklist(p) ==
    CASE p = "rupee" -> {"Rupees"}
      [] p = "heart" -> {"Small Heart", "Apple"}
      [] p = "magic" -> {"Magic Jar"}
      [] p = "bomb"  -> {"Bombs", "Single Bomb"}
      [] p = "arrow" -> {"Arrows", "Single Arrow"}
      [] OTHER       -> {}

\* the outcomes of random.sample(my_price_types, len(my_price_types)), cut to the first two
\* entries: no item name is excluded by two categories, so the loop of return_funny_price
\* stops at the first or the second entry
Samples == {<<a, b>> : a \in PriceTypes, b \in PriceTypes} \ {<<a, a>> : a \in PriceTypes}

\* the outcomes of world.random.randrange(0, 6)
PotionRolls == 0 .. 5

\* the remap without the clamps of lines 235-240: the funny units go into the tagged value as they are
funny_remap_unclamped(p, price, keyshuffle, roll) ==
    IF p \in {"rupee", "cb", "ca"} \/ (p = "keys" /\ keyshuffle # "universal")
    THEN price * 5
    ELSE LET v == CASE p = "heart"  -> price * 4
                    [] p = "magic"  -> price * 4
                    [] p = "potion" -> roll
                    [] OTHER        -> price
         IN  BitOr(v, BitOr(32768, 256 * (type_index(p) - 1)))

\* the body of the loop for the category p that is selected (price in funny units)
funny_remap(p, price, keyshuffle, roll) ==
    IF p \in {"rupee", "cb", "ca"} \/ (p = "keys" /\ keyshuffle # "universal")
    THEN price * 5
    ELSE LET v == CASE p = "heart"  -> Min(16, price) * 4
                    [] p = "magic"  -> Min(32, price) * 4
                    [] p = "bomb"   -> Min(10, price \div 4)
                    [] p = "arrow"  -> Min(30, price \div 2)
                    [] p = "ch"     -> Min(3, Max(1, price \div 8)) * 8
                    [] p = "keys"   -> Min(3, Max(1, price \div 8))
                    [] p = "potion" -> roll
                    [] OTHER        -> price
         IN  BitOr(v, BitOr(32768, 256 * (type_index(p) - 1)))

RECURSIVE funny_scan(_, _, _, _, _, _)
\* for p in my_choices: skip the categories that exclude the item, remap at the first other
funny_scan(price, item_name, my_choices, k, keyshuffle, roll) ==
    IF k > Len(my_choices) THEN price
    ELSE IF \E x \in price_blacklist(my_choices[k]) : Contains(item_name, x)
         THEN funny_scan(price, item_name, my_choices, k + 1, keyshuffle, roll)
         ELSE funny_remap(my_choices[k], price, keyshuffle, roll)

\* return_funny_price(price, item_name, world, player); my_choices and roll are the random draws
return_funny_price(price, item_name, my_choices, keyshuffle, roll) ==
    IF item_name = NoName THEN price
    ELSE funny_scan(Max(1, price \div 5), item_name, my_choices, 1, keyshuffle, roll)

\* shuffle_shops.price_adjust with random.random() = k / RandomSteps:
\* int((price / adjust) * (0.5 + random * 1.5)) * adjust
price_adjust(price, k) ==
    LET adjust == IF price < 100 THEN 2 ELSE 5
    IN  ((price * (RandomSteps + 3 * k)) \div (2 * RandomSteps * adjust)) * adjust

\* the random draws of one assignment of adjust_item: random.random() for price_adjust, the
\* category order and the potion roll for return_funny_price
AdjustDraws == (0 .. (RandomSteps - 1)) \X Samples \X PotionRolls

\* adjust_item: item["price"] = return_funny_price(price_adjust(item["price"]), item['item'], ...)
adjust_price(item, d, keyshuffle) ==
    [item EXCEPT !.price =
        return_funny_price(price_adjust(item.price, d[1]), item.item, d[2], keyshuffle, d[3])]

\* adjust_item: item['replacement_price'] = return_funny_price(price_adjust(...), item['replacement'], ...)
adjust_replacement_price(item, d, keyshuffle) ==
    [item EXCEPT !.replacement_price =
        return_funny_price(price_adjust(item.replacement_price, d[1]), item.replacement,
                           d[2], keyshuffle, d[3])]

(***************************************************************************)
(* class Shop                                                              *)
(***************************************************************************)
\* Shop.slots
slots == 3

ShopType == {"Shop", "TakeAny", "UpgradeShop"}

SlotIdx == 0 .. (slots - 1)

\* self.inventory = [None] * self.slots
EmptyInventory == [x \in SlotIdx |-> None]

\* EntranceShuffle.door_addresses: entrance name -> (door index, ...); two entries of it
door_addresses == [n \in {"Kakariko Shop", "Capacity Upgrade"} |->
                      IF n = "Kakariko Shop" THEN 0 ELSE 69]

\* Utils.int16_as_bytes: low byte, then high byte
int16_as_bytes(value) == <<value % 256, (value \div 256) % 256>>

\* item_count counting the occupied slots instead of scanning for the last one
RECURSIVE item_count_occupied(_, _)
item_count_occupied(inv, x) ==
    IF x < 0 THEN 0
    ELSE (IF inv[x] # None THEN 1 ELSE 0) + item_count_occupied(inv, x - 1)

RECURSIVE item_count_from(_, _)
\* the loop of item_count: for x in range(self.slots - 1, -1, -1)
item_count_from(inv, x) ==
    IF x < 0 THEN 0
    ELSE IF inv[x] # None THEN x + 1
    ELSE item_count_from(inv, x - 1)

\* Shop.item_count
item_count(inv) == item_count_from(inv, slots - 1)

\* get_bytes setting the door-ignore bit on the wrong branch
get_bytes_doorflag(inv, sh) ==
    LET entrances == sh.entrances
        found == Len(entrances) = 1 /\ entrances[1] \in DOMAIN door_addresses
        door_id == IF found THEN door_addresses[entrances[1]] + 1 ELSE 0
        c0 == item_count(inv)
        c1 == IF found THEN BitOr(c0, 64) ELSE c0
        config == IF sh.type = "TakeAny" THEN BitOr(c1, 128)
                  ELSE IF sh.type = "UpgradeShop" THEN BitOr(c1, 16)
                  ELSE c1
    IN  <<0>> \o int16_as_bytes(sh.room_id) \o <<door_id, 0, config, sh.shopkeeper_config, 0>>

\* Shop.get_bytes
get_bytes(inv, sh) ==
    LET entrances == sh.entrances
        found == Len(entrances) = 1 /\ entrances[1] \in DOMAIN door_addresses
        door_id == IF found THEN door_addresses[entrances[1]] + 1 ELSE 0
        c0 == item_count(inv)
        c1 == IF found THEN c0 ELSE BitOr(c0, 64)
        config == IF sh.type = "TakeAny" THEN BitOr(c1, 128)
                  ELSE IF sh.type = "UpgradeShop" THEN BitOr(c1, 16)
                  ELSE c1
    IN  <<0>> \o int16_as_bytes(sh.room_id) \o <<door_id, 0, config, sh.shopkeeper_config, 0>>

\* the dict add_inventory stores
add_entry(item, price, max, replacement, replacement_price, create_location, player) ==
    [item |-> item, price |-> price, max |-> max, replacement |-> replacement,
     replacement_price |-> replacement_price, create_location |-> create_location,
     player |-> player]

\* Shop.can_push_inventory
can_push_inventory(inv, slot) ==
    inv[slot] # None /\ ~Truthy(inv[slot].replacement)

\* push_inventory that carries the old replacement over instead of the old item
push_entry_keep(old, item, price, max, player) ==
    [item |-> item, price |-> price, max |-> max,
     replacement |-> old.replacement,
     replacement_price |-> old.replacement_price,
     create_location |-> old.create_location,
     player |-> player]

\* the dict push_inventory stores over the old entry
push_entry(old, item, price, max, player) ==
    [item |-> item, price |-> price, max |-> max,
     replacement |-> old.item,
     replacement_price |-> old.price,
     create_location |-> old.create_location,
     player |-> player]

(***************************************************************************)
(* Inputs of SpecShop.                                                     *)
(***************************************************************************)
\* (room_id, shopkeeper_config) of three shop_table rows
ShopRows == {<<274, 193>>, <<255, 160>>, <<277, 4>>}

\* region.entrances: none, the one entrance listed or not listed in door_addresses, two entrances
EntranceLists == {<<>>, <<"Kakariko Shop">>, <<"Capacity Upgrade">>, <<"Unlisted Cave">>,
                  <<"Kakariko Shop", "Capacity Upgrade">>}

\* argument tuples of add_inventory: shop_table rows and set_up_shops' calls
AddArgs == {
    add_entry("Red Potion", 150, 0, NoName, 0, FALSE, 0),
    add_entry("Bee", 10, 0, NoName, 0, TRUE, 0),
    add_entry("Bomb Upgrade (+5)", 100, 7, NoName, 0, FALSE, 0),
    add_entry("Single Arrow", 80, 1, "Red Potion", 150, FALSE, 0) }

\* argument tuples (item, price, max, player) of push_inventory: set_up_shops' and ShopSlotFill's calls
PushArgs == {<<"Single Arrow", 80, 1, 0>>, <<"Bombs (3)", 35, 1, 2>>,
             <<"Bomb Upgrade (+5)", 100, 7, 0>>}

Idle == [op |-> "none"]

IdleShop ==
    /\ inventory = EmptyInventory
    /\ shop = Idle
    /\ bytes = <<>>
    /\ last = Idle
    /\ nops = 0

IdlePrice ==
    /\ funny = Idle
    /\ entry = Idle

IdleFill ==
    /\ locations = Idle
    /\ shops = Idle
    /\ fill = Idle
    /\ hist = Idle

InitShop ==
    /\ IdlePrice
    /\ IdleFill
    /\ upg = Idle
    /\ world = Idle
    /\ cs = Idle
    /\ inventory = EmptyInventory
    /\ \E t \in ShopType, r \in ShopRows, e \in EntranceLists :
          shop = [type |-> t, room_id |-> r[1], shopkeeper_config |-> r[2], entrances |-> e]
    /\ bytes = <<>>
    /\ last = Idle
    /\ nops = 0

\* Shop.add_inventory
add_inventory ==
    /\ nops < MaxOps
    /\ \E slot \in SlotIdx, e \in AddArgs :
          /\ inventory' = [inventory EXCEPT ![slot] = e]
          /\ last' = [op |-> "add_inventory", slot |-> slot, item |-> e.item, price |-> e.price,
                      max |-> e.max, player |-> e.player, raised |-> FALSE]
    /\ bytes' = <<>>
    /\ nops' = nops + 1
    /\ UNCHANGED <<shop, priceVars, world, cs, fillVars, upg>>

\* Shop.push_inventory
push_inventory ==
    /\ nops < MaxOps
    /\ \E slot \in SlotIdx, a \in PushArgs :
          /\ IF inventory[slot] = None
             THEN \* raise ValueError
                  inventory' = inventory
             ELSE inventory' = [inventory EXCEPT
                                   ![slot] = push_entry(inventory[slot], a[1], a[2], a[3], a[4])]
          /\ last' = [op |-> "push_inventory", slot |-> slot, item |-> a[1], price |-> a[2],
                      max |-> a[3], player |-> a[4], raised |-> (inventory[slot] = None)]
    /\ bytes' = <<>>
    /\ nops' = nops + 1
    /\ UNCHANGED <<shop, priceVars, world, cs, fillVars, upg>>

\* Shop.clear_inventory
clear_inventory ==
    /\ nops < MaxOps
    /\ inventory' = EmptyInventory
    /\ last' = [op |-> "clear_inventory", slot |-> 0, item |-> NoName, price |-> 0,
                max |-> 0, player |-> 0, raised |-> FALSE]
    /\ bytes' = <<>>
    /\ nops' = nops + 1
    /\ UNCHANGED <<shop, priceVars, world, cs, fillVars, upg>>

\* a call of Shop.get_bytes
call_get_bytes ==
    /\ nops < MaxOps
    /\ bytes' = get_bytes(inventory, shop)
    /\ last' = [op |-> "get_bytes", slot |-> 0, item |-> NoName, price |-> 0,
                max |-> 0, player |-> 0, raised |-> FALSE]
    /\ nops' = nops + 1
    /\ UNCHANGED <<inventory, shop, priceVars, world, cs, fillVars, upg>>

NextShop ==
    \/ add_inventory
    \/ push_inventory
    \/ clear_inventory
    \/ call_get_bytes

SpecShop == InitShop /\ [][NextShop]_vars

(***************************************************************************)
(* Claims about the Shop object.                                           *)
(***************************************************************************)
OccupiedSlots(inv) == {x \in SlotIdx : inv[x] # None}

SetMax(S) == CHOOSE m \in S : \A x \in S : x <= m

\* C2: push_inventory on an empty slot raises and leaves the whole inventory
\* unchanged; on a populated slot without a replacement the old (item, price)
\* become (replacement, replacement_price), the arguments become the primary
\* fields, create_location is carried over, the other slots are unchanged and
\* can_push_inventory of the slot is false afterwards.
C2_PushInventory ==
    [][ last'.op = "push_inventory" /\ nops' = nops + 1 =>
          LET s == last'.slot IN
          IF inventory[s] = None
          THEN last'.raised /\ inventory' = inventory
          ELSE can_push_inventory(inventory, s) =>
                 /\ ~last'.raised
                 /\ inventory'[s].replacement = inventory[s].item
                 /\ inventory'[s].replacement_price = inventory[s].price
                 /\ inventory'[s].item = last'.item
                 /\ inventory'[s].price = last'.price
                 /\ inventory'[s].max = last'.max
                 /\ inventory'[s].player = last'.player
                 /\ inventory'[s].create_location = inventory[s].create_location
                 /\ \A x \in SlotIdx \ {s} : inventory'[x] = inventory[x]
                 /\ ~can_push_inventory(inventory', s) ]_vars

\* a push onto a populated slot that had no replacement has happened
C2_Witness ==
    /\ last.op = "push_inventory"
    /\ ~last.raised
    /\ inventory[last.slot] # None
    /\ inventory[last.slot].item = last.item
    /\ inventory[last.slot].replacement = "Bee"
    /\ inventory[last.slot].create_location

\* C3: item_count is 1 + the highest index of a non-empty slot, 0 when all
\* slots are empty, whatever holes lie below.
C3_ItemCount ==
    item_count(inventory) =
        IF OccupiedSlots(inventory) = {} THEN 0 ELSE 1 + SetMax(OccupiedSlots(inventory))

\* the inventory [None, item, None] after a clear and an add
C3_Witness ==
    /\ inventory[0] = None /\ inventory[1] # None /\ inventory[2] = None
    /\ item_count(inventory) = 2
    /\ nops >= 2

\* C8: get_bytes returns the 8-byte record and its config byte decodes back:
\* low bits = item_count, 0x80 iff TakeAny, 0x10 iff UpgradeShop, 0x40 iff
\* door-id is 0 iff the region has not exactly one entrance listed in
\* door_addresses.
C8_GetBytes ==
    last.op = "get_bytes" =>
        /\ Len(bytes) = 8
        /\ bytes[1] = 0 /\ bytes[5] = 0 /\ bytes[8] = 0
        /\ bytes[2] = shop.room_id % 256
        /\ bytes[3] = shop.room_id \div 256
        /\ bytes[7] = shop.shopkeeper_config
        /\ bytes[6] % 16 = item_count(inventory)
        /\ bytes[6] \in 0 .. 255
        /\ HasBit(bytes[6], 128) <=> shop.type = "TakeAny"
        /\ HasBit(bytes[6], 16) <=> shop.type = "UpgradeShop"
        /\ HasBit(bytes[6], 64) <=> bytes[4] = 0
        /\ ~HasBit(bytes[6], 32)
        /\ bytes[4] = 0 <=> ~(Len(shop.entrances) = 1 /\ shop.entrances[1] \in DOMAIN door_addresses)
        /\ bytes[4] # 0 => bytes[4] = door_addresses[shop.entrances[1]] + 1

\* get_bytes of a TakeAny shop with items and a listed door
C8_Witness ==
    /\ last.op = "get_bytes"
    /\ shop.type = "TakeAny"
    /\ bytes[4] = 1
    /\ item_count(inventory) = 2

(***************************************************************************)
(* SpecPrice: calls of return_funny_price, and adjust_item on one entry.   *)
(***************************************************************************)
\* raw prices handed to return_funny_price
RawPrices == {0, 5, 40, 150, 500}

\* world.keyshuffle[player]
KeyShuffle == {"off", "universal"}

\* inventory entries shuffle_shops meets: shop_table rows, set_up_shops' entries, a free item
PriceEntries == AddArgs \cup {add_entry("Red Potion", 0, 0, NoName, 0, FALSE, 0),
                              add_entry("Bombs (3)", 35, 1, "Small Heart", 10, TRUE, 0)}

InitPrice ==
    /\ IdleShop
    /\ funny = Idle
    /\ entry = Idle
    /\ cs = Idle
    /\ IdleFill
    /\ upg = Idle
    /\ \E ks \in KeyShuffle : world = [keyshuffle |-> ks]

\* a call return_funny_price(price, item_name, world, player)
call_return_funny_price ==
    /\ entry = Idle
    /\ funny = Idle
    /\ \E price \in RawPrices, name \in item_table \cup {NoName}, c \in Samples, roll \in PotionRolls :
          funny' = [op |-> "return_funny_price", price |-> price, item_name |-> name,
                    my_choices |-> c, roll |-> roll,
                    result |-> return_funny_price(price, name, c, world.keyshuffle, roll)]
    /\ UNCHANGED <<entry, world, shopVars, cs, fillVars, upg>>

\* shuffle_shops with 'p': adjust_item(item) on an inventory entry, its first assignment
adjust_item_price ==
    /\ entry = Idle
    /\ funny = Idle
    /\ \E e \in PriceEntries, d \in AdjustDraws :
          entry' = [op |-> "adjust_item", pc |-> "replacement_price", before |-> e,
                    after |-> adjust_price(e, d, world.keyshuffle)]
    /\ UNCHANGED <<funny, world, shopVars, cs, fillVars, upg>>

\* adjust_item(item), its second assignment
adjust_item_replacement_price ==
    /\ entry # Idle
    /\ entry.pc = "replacement_price"
    /\ \E d \in AdjustDraws :
          entry' = [entry EXCEPT !.pc = "done",
                                 !.after = adjust_replacement_price(entry.after, d, world.keyshuffle)]
    /\ UNCHANGED <<funny, world, shopVars, cs, fillVars, upg>>

NextPrice ==
    \/ call_return_funny_price
    \/ adjust_item_price
    \/ adjust_item_replacement_price

SpecPrice == InitPrice /\ [][NextPrice]_vars

\* C1: return_funny_price with raw price 0 returns 0 for every item name,
\* category order, key-sharing mode and potion roll, and an entry whose
\* price is 0 still has price 0 after adjust_item.
C1_ZeroPriceStaysZero ==
    /\ (funny.op = "return_funny_price" /\ funny.price = 0 => funny.result = 0)
    /\ (entry.op = "adjust_item" /\ entry.before.price = 0 => entry.after.price = 0)

\* the category the loop of return_funny_price stops at: the first of my_choices that does
\* not exclude the item name
Selected(item_name, my_choices) ==
    my_choices[CHOOSE k \in 1 .. Len(my_choices) :
                  /\ ~\E x \in price_blacklist(my_choices[k]) : Contains(item_name, x)
                  /\ \A m \in 1 .. (k - 1) :
                        \E x \in price_blacklist(my_choices[m]) : Contains(item_name, x)]

\* the categories that select exactly one entry of my_choices
ExactlyOneSelected(item_name, my_choices) ==
    Cardinality({k \in 1 .. Len(my_choices) :
                    /\ ~\E x \in price_blacklist(my_choices[k]) : Contains(item_name, x)
                    /\ \A m \in 1 .. (k - 1) :
                          \E x \in price_blacklist(my_choices[m]) : Contains(item_name, x)}) = 1

\* the raw price in funny units (line 226)
FunnyUnits(price) == Max(1, price \div 5)

\* result is a tagged price of category p: bit 0x8000, the category index - 1 above the low
\* byte, nothing else
TaggedAs(result, p) ==
    /\ HasBit(result, 32768)
    /\ (result % 32768) \div 256 = type_index(p) - 1
    /\ result \div 65536 = 0

\* the low byte of a tagged price
LowByte(result) == result % 256

\* the low byte the claim gives category p for u funny units, crystal being the categories
\* that are clamped to [1,3] and scaled by 8
ClampedValue(p, u, roll, crystal) ==
    CASE p = "heart"  -> Min(16, u) * 4
      [] p = "magic"  -> Min(32, u) * 4
      [] p = "bomb"   -> Min(10, u \div 4)
      [] p = "arrow"  -> Min(30, u \div 2)
      [] p \in crystal -> Min(3, Max(1, u \div 8)) * 8
      [] p = "keys"   -> Min(3, Max(1, u \div 8))
      [] p = "potion" -> roll
      [] OTHER        -> u

\* the range the claim gives the low byte of category p
InRange(p, v, crystal) ==
    CASE p = "heart"  -> v <= 16 * 4 /\ v % 4 = 0
      [] p = "magic"  -> v <= 32 * 4 /\ v % 4 = 0
      [] p = "bomb"   -> v <= 10
      [] p = "arrow"  -> v <= 30
      [] p \in crystal -> v \in {8, 16, 24}
      [] p = "keys"   -> v \in 1 .. 3
      [] p = "potion" -> v \in 0 .. 5
      [] OTHER        -> FALSE

\* the call of return_funny_price the state records has a named item and a non-zero price
NamedCall ==
    funny.op = "return_funny_price" /\ funny.item_name # NoName /\ funny.price # 0

\* the statement of C11 with plain the categories paid in plain currency and crystal the
\* categories tagged with a value in [1,3] times 8
FunnyPriceShape(plain, crystal) ==
    NamedCall =>
        LET p == Selected(funny.item_name, funny.my_choices)
            u == FunnyUnits(funny.price)
        IN  /\ ExactlyOneSelected(funny.item_name, funny.my_choices)
            /\ IF p \in plain \/ (p = "keys" /\ world.keyshuffle # "universal")
               THEN funny.result = u * 5 /\ ~HasBit(funny.result, 32768)
               ELSE /\ TaggedAs(funny.result, p)
                    /\ LowByte(funny.result) = ClampedValue(p, u, funny.roll, crystal)
                    /\ InRange(p, LowByte(funny.result), crystal)

\* C11 as amended: for a named item and a non-zero raw price, return_funny_price
\* selects exactly one category. For rupee, cb, ca, and keys when key-sharing
\* is not universal, it returns the funny units times 5 with bit 0x8000
\* clear. Otherwise the result has bit 0x8000 set, 0x100 * (category index - 1)
\* above the low byte, and the low byte is the clamped value: heart at most
\* 16 then times 4, magic at most 32 then times 4, bomb at most 10, arrow at
\* most 30, ch in [1,3] times 8, universal key in [1,3], potion in [0,6).
C11_FunnyPriceShape == FunnyPriceShape({"rupee", "cb", "ca"}, {"ch"})

\* a call that selected ch and one that would be tagged differently were cb a crystal tag:
\* the recorded call selected cb for a price of 150 and returned the plain price
C11_Witness ==
    /\ NamedCall
    /\ Selected(funny.item_name, funny.my_choices) = "cb"
    /\ funny.price = 150
    /\ funny.result = 150

\* C11 as stated: only rupee (and keys when key-sharing is not universal) is
\* plain currency; each of ch, cb and ca is tagged, with a low byte in [1,3]
\* times 8.
C11_Original == FunnyPriceShape({"rupee"}, {"ch", "cb", "ca"})

(***************************************************************************)
(* shop_table and create_shops.                                            *)
(***************************************************************************)
_basic_shop_defaults == << <<"Red Potion", 150>>, <<"Small Heart", 10>>, <<"Bombs (10)", 50>> >>
_dark_world_shop_defaults == << <<"Red Potion", 150>>, <<"Blue Shield", 50>>, <<"Bombs (10)", 50>> >>
_inverted_hylia_shop_defaults == << <<"Blue Potion", 160>>, <<"Blue Shield", 50>>, <<"Bombs (10)", 50>> >>

ShopData(name, room, type, shopkeeper, custom, locked, items, sram_offset) ==
    [name |-> name, room |-> room, type |-> type, shopkeeper |-> shopkeeper, custom |-> custom,
     locked |-> locked, items |-> items, sram_offset |-> sram_offset]

\* shop_table, in dict order
shop_table == <<
    ShopData("Cave Shop (Dark Death Mountain)", 274, "Shop", 193, TRUE, FALSE, _basic_shop_defaults, 0),
    ShopData("Red Shield Shop", 272, "Shop", 193, TRUE, FALSE,
             << <<"Red Shield", 500>>, <<"Bee", 10>>, <<"Arrows (10)", 30>> >>, 3),
    ShopData("Dark Lake Hylia Shop", 271, "Shop", 193, TRUE, FALSE, _dark_world_shop_defaults, 6),
    ShopData("Dark World Lumberjack Shop", 271, "Shop", 193, TRUE, FALSE, _dark_world_shop_defaults, 9),
    ShopData("Village of Outcasts Shop", 271, "Shop", 193, TRUE, FALSE, _dark_world_shop_defaults, 12),
    ShopData("Dark World Potion Shop", 271, "Shop", 193, TRUE, FALSE, _dark_world_shop_defaults, 15),
    ShopData("Light World Death Mountain Shop", 255, "Shop", 160, TRUE, FALSE, _basic_shop_defaults, 18),
    ShopData("Kakariko Shop", 287, "Shop", 160, TRUE, FALSE, _basic_shop_defaults, 21),
    ShopData("Cave Shop (Lake Hylia)", 274, "Shop", 160, TRUE, FALSE, _basic_shop_defaults, 24),
    ShopData("Potion Shop", 265, "Shop", 160, TRUE, TRUE,
             << <<"Red Potion", 120>>, <<"Green Potion", 60>>, <<"Blue Potion", 160>> >>, 27),
    ShopData("Capacity Upgrade", 277, "UpgradeShop", 4, TRUE, TRUE,
             << <<"Bomb Upgrade (+5)", 100, 7>>, <<"Arrow Upgrade (+5)", 100, 7>> >>, 30) >>

RECURSIVE SumOver(_, _)
\* sum(f(k) for k in 1 .. n)
SumOver(f, n) == IF n = 0 THEN 0 ELSE f[n] + SumOver(f, n - 1)

\* total_dynamic_shop_slots = sum(3 for shopname, data in shop_table.items() if not data[4])
total_dynamic_shop_slots ==
    SumOver([k \in 1 .. Len(shop_table) |-> IF shop_table[k].locked THEN 0 ELSE 3], Len(shop_table))

\* shop_generation_types, concatenated in the order create_shops reads them
default_shop_table(retro) ==
    (IF retro THEN <<>> ELSE << <<"Arrows (10)", 50>>, <<"Arrows (10)", 50>> >>)
    \o << <<"Single Bomb", 10>>, <<"Bombs (3)", 30>>, <<"Bombs (10)", 50>> >>
    \o << <<"Red Potion", 150>>, <<"Green Potion", 90>>, <<"Blue Potion", 190>> >>
    \o << <<"Red Shield", 500>>, <<"Blue Shield", 50>> >>
    \o << <<"Small Heart", 10>>, <<"Apple", 50>>, <<"Bee", 10>>, <<"Good Bee", 100>>,
          <<"Faerie", 100>>, <<"Magic Jar", 100>> >>

\* outcomes of world.random.sample(default_shop_table, k=3) the model draws: the entries at
\* three index triples of the table
GenSamples(retro) ==
    LET t == default_shop_table(retro)
    IN  { <<t[1], t[4], t[9]>>, <<t[Len(t)], t[2], t[Len(t) - 3]>> }

\* outcomes of world.random.choice([0xA0, 0xC1, 0xFF])
KeeperChoices == {160, 193, 255}

\* lines 249-277: the player's copy of shop_table after the 'w', 'g'/'f' and inverted rewrites;
\* d holds the random draws (new_basic_shop, new_dark_shop, new_items, keeper)
player_shop_table(option, mode, d) ==
    LET t1 == [k \in 1 .. Len(shop_table) |->
                  IF "w" \in option /\ shop_table[k].name = "Potion Shop"
                  THEN [shop_table[k] EXCEPT !.locked = FALSE]
                  ELSE shop_table[k]]
        t2 == [k \in 1 .. Len(shop_table) |->
                  IF ("g" \in option \/ "f" \in option) /\ ~t1[k].locked
                  THEN [t1[k] EXCEPT
                          !.items = IF "f" \in option THEN d.new_items
                                    ELSE IF t1[k].items = _basic_shop_defaults THEN d.new_basic_shop
                                    ELSE IF t1[k].items = _dark_world_shop_defaults THEN d.new_dark_shop
                                    ELSE d.new_items,
                          !.shopkeeper = d.keeper]
                  ELSE t1[k]]
    IN  [k \in 1 .. Len(shop_table) |->
            IF mode = "inverted" /\ t2[k].name = "Dark Lake Hylia Shop"
            THEN [t2[k] EXCEPT !.locked = TRUE, !.items = _inverted_hylia_shop_defaults]
            ELSE t2[k]]

\* dynamic_shop_slots (lines 250-254)
dynamic_shop_slots(option) ==
    IF "w" \in option THEN total_dynamic_shop_slots + 3 ELSE total_dynamic_shop_slots

\* num_slots = min(dynamic_shop_slots, max(0, int(world.shop_shuffle_slots[player])))
num_slots(option, shop_shuffle_slots) ==
    Min(dynamic_shop_slots(option), Max(0, shop_shuffle_slots))

RECURSIVE Arrangements(_, _)
\* the outcomes of world.random.shuffle on [True] * nt + [False] * nf
Arrangements(nt, nf) ==
    IF nt = 0 /\ nf = 0 THEN {<<>>}
    ELSE (IF nt > 0 THEN {<<TRUE>> \o r : r \in Arrangements(nt - 1, nf)} ELSE {})
         \cup (IF nf > 0 THEN {<<FALSE>> \o r : r \in Arrangements(nt, nf - 1)} ELSE {})

\* shop.add_inventory(index, *item) for an item tuple of shop_table
add_item_tuple(item) ==
    add_entry(item[1], item[2], IF Len(item) >= 3 THEN item[3] ELSE 0, NoName, 0, FALSE, 0)

\* the inventory of a new shop after the add_inventory calls of lines 283-284
table_inventory(items) ==
    [x \in SlotIdx |-> IF x + 1 <= Len(items) THEN add_item_tuple(items[x + 1]) ELSE None]

\* the bonus item of a single-purchase slot (lines 292-295)
additional_item(goal) == IF goal # "icerodhunt" THEN "Rupees (50)" ELSE "Nothing"

\* the Location created for slot index of a region (lines 286-299); single is the value popped
\* from single_purchase_slots
new_location(region_name, index, single, goal) ==
    [region |-> region_name, slot |-> index + 1, shop_slot |-> TRUE, locked |-> TRUE,
     single_purchase |-> single,
     item |-> IF single THEN additional_item(goal) ELSE "Nothing",
     shop_slot_disabled |-> ~single]

\* the locations lines 283-301 create for one row: one pop() per item, from the end of the list
row_locations(row, sps, goal) ==
    [k \in 1 .. Len(row.items) |->
        new_location(row.name, k - 1, sps[Len(sps) - (k - 1)], goal)]

(***************************************************************************)
(* SpecCreate: create_shops for one player.                                *)
(***************************************************************************)
\* world.shop_shuffle[player]: the option strings, as sets of characters
ShopShuffleOptions == {{}, {"w"}, {"g"}, {"f", "w"}}

\* world.shop_shuffle_slots[player]
ShopShuffleSlots == {-1, 0, 1, 29, 30}

Modes == {"open", "inverted"}
Goals == {"ganon", "icerodhunt"}

InitCreate ==
    /\ IdleShop
    /\ IdlePrice
    /\ IdleFill
    /\ upg = Idle
    /\ \E o \in ShopShuffleOptions, n \in ShopShuffleSlots, m \in Modes, g \in Goals, r \in BOOLEAN :
          world = [shop_shuffle |-> o, shop_shuffle_slots |-> n, mode |-> m, goal |-> g, retro |-> r]
    /\ cs = [pc |-> "start"]

\* lines 247-277: the table, num_slots and the shuffled single_purchase_slots
create_shops_setup ==
    /\ cs.pc = "start"
    /\ LET option == world.shop_shuffle
           n == num_slots(option, world.shop_shuffle_slots)
       IN  \E sps \in Arrangements(n, dynamic_shop_slots(option) - n) :
           \E b \in GenSamples(world.retro), dk \in GenSamples(world.retro),
              ni \in GenSamples(world.retro), kp \in KeeperChoices :
              cs' = [pc |-> "loop", row |-> 1, num_slots |-> n,
                     single_purchase_slots |-> sps,
                     table |-> player_shop_table(option, world.mode,
                                  IF "g" \in option \/ "f" \in option
                                  THEN [new_basic_shop |-> b, new_dark_shop |-> dk,
                                        new_items |-> ni, keeper |-> kp]
                                  ELSE [new_basic_shop |-> <<>>, new_dark_shop |-> <<>>,
                                        new_items |-> <<>>, keeper |-> 0]),
                     shops |-> <<>>, dynamic_locations |-> <<>>]
    /\ UNCHANGED <<world, shopVars, priceVars, fillVars, upg>>

\* lines 278-302: one iteration of the loop over player_shop_table
create_shops_row ==
    /\ cs.pc = "loop"
    /\ cs.row <= Len(cs.table)
    /\ LET row == cs.table[cs.row]
           makes == ~row.locked /\ cs.num_slots # 0
           locs == IF makes THEN row_locations(row, cs.single_purchase_slots, world.goal) ELSE <<>>
           sps == cs.single_purchase_slots
       IN  cs' = [cs EXCEPT
                    !.row = @ + 1,
                    !.shops = Append(@, [region |-> row.name, type |-> row.type,
                                         room_id |-> row.room,
                                         shopkeeper_config |-> row.shopkeeper,
                                         custom |-> row.custom, locked |-> row.locked,
                                         sram_offset |-> row.sram_offset,
                                         inventory |-> table_inventory(row.items)]),
                    !.dynamic_locations = @ \o locs,
                    !.single_purchase_slots = SubSeq(sps, 1, Len(sps) - Len(locs))]
    /\ UNCHANGED <<world, shopVars, priceVars, fillVars, upg>>

\* create_shops returns
create_shops_return ==
    /\ cs.pc = "loop"
    /\ cs.row > Len(cs.table)
    /\ cs' = [cs EXCEPT !.pc = "done"]
    /\ UNCHANGED <<world, shopVars, priceVars, fillVars, upg>>

NextCreate ==
    \/ create_shops_setup
    \/ create_shops_row
    \/ create_shops_return

SpecCreate == InitCreate /\ [][NextCreate]_vars

\* the locations created for a region
LocationsOf(region) ==
    {k \in 1 .. Len(cs.dynamic_locations) : cs.dynamic_locations[k].region = region}

\* C9: after create_shops with num_slots > 0 every unlocked shop has one
\* shop-slot location per default item; a location carries a non-"Nothing"
\* item and is enabled iff its slot was marked single-purchase, otherwise it
\* carries "Nothing" and is disabled; exactly num_slots locations end up
\* enabled with a non-"Nothing" item.
C9_CreateShops ==
    cs.pc = "done" /\ num_slots(world.shop_shuffle, world.shop_shuffle_slots) > 0 =>
        /\ \A k \in 1 .. Len(cs.shops) :
              ~cs.shops[k].locked =>
                 Cardinality(LocationsOf(cs.shops[k].region)) = item_count(cs.shops[k].inventory)
        /\ \A k \in 1 .. Len(cs.dynamic_locations) :
              LET loc == cs.dynamic_locations[k] IN
              /\ loc.shop_slot
              /\ (loc.item # "Nothing" /\ ~loc.shop_slot_disabled) <=> loc.single_purchase
              /\ ~loc.single_purchase => loc.item = "Nothing" /\ loc.shop_slot_disabled
        /\ Cardinality({k \in 1 .. Len(cs.dynamic_locations) :
                           /\ cs.dynamic_locations[k].item # "Nothing"
                           /\ ~cs.dynamic_locations[k].shop_slot_disabled})
             = num_slots(world.shop_shuffle, world.shop_shuffle_slots)

(***************************************************************************)
(* shuffle_shops with the 'u' option: the capacity upgrades.               *)
(***************************************************************************)
\* longest item pool handed to shuffle_shops
MaxItems == 7

\* the names new_items can hold
UpgradeNames == {"Bomb Upgrade (+5)", "Bomb Upgrade (+10)", "Arrow Upgrade (+5)", "Arrow Upgrade (+10)"}

\* Items.trap_replaceable, as far as the pools of the model go
trap_replaceable == {"Rupees (20)", "Bombs (3)"}

\* the names an item pool of the model is made of
PoolNames == {"Rupees (20)", "Blue Shield"}

\* the item pools handed to shuffle_shops: the lists of at most MaxItems names
ItemPools == UNION {[1 .. n -> PoolNames] : n \in 0 .. MaxItems}

\* lines 392-394: progressive after "progressive &= world.goal == 'icerodhunt'"; world.goal is
\* the per-player table (it is indexed by player on line 411), which never equals a string
progressive_of(setting, coin) ==
    (IF setting = "random" THEN coin ELSE setting = "on") /\ FALSE

\* new_items (lines 395-400) as the number of entries of each name; random.shuffle (line 402)
\* leaves the numbers as they are and makes every entry the possible last one
new_items_of(progressive, retro) ==
    [n \in UpgradeNames |->
        CASE n = "Bomb Upgrade (+5)"   -> 6 + (IF progressive THEN 1 ELSE 0)
          [] n = "Bomb Upgrade (+10)"  -> IF progressive THEN 0 ELSE 1
          [] n = "Arrow Upgrade (+5)"  -> IF retro THEN 0 ELSE 6 + (IF progressive THEN 1 ELSE 0)
          [] n = "Arrow Upgrade (+10)" -> IF retro \/ progressive THEN 0 ELSE 1]

\* len(new_items)
new_items_len(new_items) ==
    new_items["Bomb Upgrade (+5)"] + new_items["Bomb Upgrade (+10)"]
        + new_items["Arrow Upgrade (+5)"] + new_items["Arrow Upgrade (+10)"]

\* bombupgrades and arrowupgrades (lines 419-420): the entries whose name contains
\* 'Bomb Upgrade', and those whose name contains 'Arrow Upgrade'
bombupgrades(new_items) == new_items["Bomb Upgrade (+5)"] + new_items["Bomb Upgrade (+10)"]
arrowupgrades(new_items) == new_items["Arrow Upgrade (+5)"] + new_items["Arrow Upgrade (+10)"]

\* the Capacity Upgrade row of shop_table
capacity_row == shop_table[CHOOSE k \in 1 .. Len(shop_table) : shop_table[k].name = "Capacity Upgrade"]

\* lines 421-424: the two add_inventory calls of the else branch, both on slot 1
leftover_inventory(inv, new_items) ==
    LET inv1 == IF bombupgrades(new_items) # 0
                THEN [inv EXCEPT ![1] = add_entry("Bomb Upgrade (+5)", 100, bombupgrades(new_items),
                                                   NoName, 0, FALSE, 0)]
                ELSE inv
    IN  IF arrowupgrades(new_items) # 0
        THEN [inv1 EXCEPT ![1] = add_entry("Arrow Upgrade (+5)", 100, arrowupgrades(new_items),
                                            NoName, 0, FALSE, 0)]
        ELSE inv1

\* world.progressive[player]
ProgressiveSettings == {"on", "off", "random"}

InitUpgrade ==
    /\ IdlePrice
    /\ IdleFill
    /\ cs = Idle
    /\ \E o \in {{}, {"u"}}, g \in Goals, r \in BOOLEAN, pr \in ProgressiveSettings :
          world = [shop_shuffle |-> o, goal |-> g, retro |-> r, progressive |-> pr]
    /\ shop = [type |-> capacity_row.type, room_id |-> capacity_row.room,
               shopkeeper_config |-> capacity_row.shopkeeper, entrances |-> <<>>]
    /\ inventory = table_inventory(capacity_row.items)
    /\ bytes = <<>>
    /\ last = Idle
    /\ nops = 0
    /\ \E items \in ItemPools :
          upg = [pc |-> "start", new_items |-> [n \in UpgradeNames |-> 0], items |-> items,
                 i |-> 1, leftover |-> FALSE, precollected |-> [n \in UpgradeNames |-> 0]]

\* lines 390-411: new_items is made and shuffled, the Capacity Upgrade shop is cleared
shuffle_shops_begin ==
    /\ upg # Idle
    /\ upg.pc = "start"
    /\ IF "u" \in world.shop_shuffle
       THEN \E coin \in BOOLEAN :
               /\ upg' = [upg EXCEPT
                            !.new_items = new_items_of(progressive_of(world.progressive, coin),
                                                       world.retro),
                            !.pc = IF world.goal # "icerodhunt" THEN "pool" ELSE "precollect"]
               /\ inventory' = EmptyInventory
       ELSE /\ upg' = [upg EXCEPT !.pc = "done"]
            /\ inventory' = inventory
    /\ UNCHANGED <<shop, bytes, last, nops, priceVars, world, cs, fillVars>>

\* lines 412-416: one item of the pool; a replaceable one becomes the upgrade popped from
\* new_items, and the loop breaks when new_items is empty
shuffle_shops_item ==
    /\ upg # Idle
    /\ upg.pc = "pool"
    /\ upg.i <= Len(upg.items)
    /\ IF upg.items[upg.i] \in trap_replaceable
       THEN \E n \in {m \in UpgradeNames : upg.new_items[m] > 0} :
               LET rest == [upg.new_items EXCEPT ![n] = @ - 1]
               IN  upg' = [upg EXCEPT !.items[upg.i] = n, !.new_items = rest, !.i = @ + 1,
                                      !.pc = IF new_items_len(rest) = 0 THEN "done" ELSE "pool"]
       ELSE upg' = [upg EXCEPT !.i = @ + 1]
    /\ UNCHANGED <<shopVars, priceVars, world, cs, fillVars>>

\* lines 417-424: the pool is used up with upgrades left over; they go to the shop
shuffle_shops_leftover ==
    /\ upg # Idle
    /\ upg.pc = "pool"
    /\ upg.i > Len(upg.items)
    /\ inventory' = leftover_inventory(inventory, upg.new_items)
    /\ upg' = [upg EXCEPT !.pc = "done", !.leftover = TRUE]
    /\ UNCHANGED <<shop, bytes, last, nops, priceVars, world, cs, fillVars>>

\* lines 425-427: goal icerodhunt, every upgrade is pushed as precollected
shuffle_shops_precollect ==
    /\ upg # Idle
    /\ upg.pc = "precollect"
    /\ upg' = [upg EXCEPT !.pc = "done", !.precollected = upg.new_items]
    /\ UNCHANGED <<shopVars, priceVars, world, cs, fillVars>>

NextUpgrade ==
    \/ shuffle_shops_begin
    \/ shuffle_shops_item
    \/ shuffle_shops_leftover
    \/ shuffle_shops_precollect

SpecUpgrade == InitUpgrade /\ [][NextUpgrade]_vars

\* the shop holds an entry of the item with the given max
HoldsUpgrade(item, max) ==
    \E x \in SlotIdx :
        /\ inventory[x] # None
        /\ inventory[x].item = item
        /\ inventory[x].max = max

\* C12: when shuffle_shops with 'u' and a goal other than icerodhunt has
\* upgrades left over after the item pool, the Capacity Upgrade shop holds a
\* 'Bomb Upgrade (+5)' entry whose max is the number of leftover bomb
\* upgrades and an 'Arrow Upgrade (+5)' entry whose max is the number of
\* leftover arrow upgrades, each whenever its number is not zero.
C12_LeftoverUpgrades ==
    upg # Idle /\ upg.pc = "done" /\ upg.leftover =>
        /\ bombupgrades(upg.new_items) # 0 =>
              HoldsUpgrade("Bomb Upgrade (+5)", bombupgrades(upg.new_items))
        /\ arrowupgrades(upg.new_items) # 0 =>
              HoldsUpgrade("Arrow Upgrade (+5)", arrowupgrades(upg.new_items))

(***************************************************************************)
(* ShopSlotFill.                                                           *)
(***************************************************************************)
\* number of spheres world.get_spheres() yields
NumSpheres == 3

\* the locations of the small world: two shop-slot locations of one shop, two others
LocIds == {"S1", "S2", "L1", "L2"}

\* the region whose shop the slot locations belong to
FillRegion == "Kakariko Shop"

\* location.item_rule(item): the location's rule, given as the set of item names it rejects
item_rule(loc, item) == item.name \notin loc.rejects

\* blacklist_words after lines 160-163: the item_table names containing "Rupee", and "Bee"
blacklist_words ==
    {item_name \in item_table : \E blacklist_word \in {"Rupee"} : Contains(item_name, blacklist_word)}
        \cup {"Bee"}

\* candidate_condition without the blacklist test
candidate_condition_any_item(loc) ==
    ~loc.locked /\ ~loc.shop_slot

\* candidate_condition (lines 166-168)
candidate_condition(loc) ==
    ~loc.locked /\ ~loc.shop_slot /\ loc.item.name \notin blacklist_words

\* the test of line 192 for candidate c and shop-slot location
swap_allowed(c, location) ==
    candidate_condition(c) /\ item_rule(c, location.item) /\ item_rule(location, c.item)

\* Fill.swap_location_item(c, location, check_locked=False): the two items change places
swap_location_item(locs, c, l) ==
    [locs EXCEPT ![c].item = locs[l].item, ![l].item = locs[c].item]

\* the outcomes of list(sphere) for a set: every order of its elements
RECURSIVE Orders(_)
Orders(S) ==
    IF S = {} THEN {<<>>}
    ELSE UNION {{<<x>> \o r : r \in Orders(S \ {x})} : x \in S}

\* the outcomes of random.shuffle on a list of length n, as the positions it moves into place
Perms(n) == Orders(1 .. n)

\* the list random.shuffle leaves: position k holds the element the permutation names
Shuffled(list, perm) == [k \in 1 .. Len(list) |-> list[perm[k]]]

RECURSIVE cumu_weights_of(_, _)
\* cumu_weights (lines 172-179) for the first n spheres
cumu_weights_of(cps, n) ==
    IF n = 0 THEN <<>>
    ELSE LET before == cumu_weights_of(cps, n - 1)
             x == IF before # <<>> THEN before[Len(before)] ELSE 0
         IN  Append(before, Len(cps[n]) + x)

\* random.choices(population, cum_weights=cw)[0] with floor(random() * total) = r:
\* bisect(cw, random() * total, 0, len(cw) - 1), as an index from 1
choices_index(cw, r) ==
    1 + Cardinality({k \in 1 .. (Len(cw) - 1) : cw[k] <= r})

\* cumu_weights[i:] with i counted from 1
cum_weights_slice(cw, i) == SubSeq(cw, i, Len(cw))

RECURSIVE first_candidate(_, _, _, _)
\* the scan of lines 191-195: the first c of swapping_sphere that passes, or "none"
first_candidate(locs, swapping_sphere, location, k) ==
    IF k > Len(swapping_sphere) THEN "none"
    ELSE IF swap_allowed(locs[swapping_sphere[k]], locs[location]) THEN swapping_sphere[k]
    ELSE first_candidate(locs, swapping_sphere, location, k + 1)

\* the bounds (lo, hi) of the randrange call lines 203-210 choose for the item name
price_range(item_name) ==
    IF \E x \in {"Single Bomb", "Single Arrow", "Piece of Heart"} : Contains(item_name, x)
    THEN <<1, 7>>
    ELSE IF \E x \in {"Arrow", "Bomb", "Clock"} : Contains(item_name, x)
    THEN <<2, 14>>
    ELSE IF \E x \in {"Compass", "Map", "Small Key", "Clock", "Heart"} : Contains(item_name, x)
    THEN <<4, 28>>
    ELSE <<8, 56>>

\* world.random.randrange(lo, hi) for the draw pk: 0 gives the least value, 1 the greatest
randrange(range, pk) == IF pk = 0 THEN range[1] ELSE range[2] - 1

\* the draws of randrange the model takes
RangeDraws == {0, 1}

\* the category orders and potion rolls return_funny_price draws inside ShopSlotFill
FillSamples == {<<"bomb", "rupee">>, <<"keys", "potion">>}
FillRolls == {5}

\* lines 202-215: the price of the item placed in the slot
slot_price(item_name, option, keyshuffle, d) ==
    LET price == randrange(price_range(item_name), d.pk) * 5
    IN  IF "p" \in option
        THEN return_funny_price(price, item_name, d.my_choices, keyshuffle, d.roll)
        ELSE price

\* the slot number taken as the last character of the name, not lowered by one
slot_num_from_one(loc) == loc.slot

\* the slot number int(location.name[-1]) - 1
slot_num(loc) == loc.slot - 1

\* the locations ShopSlotFill collects first (lines 144-145)
shop_slots_of(locs) == {l \in DOMAIN locs : locs[l].shop_slot}

\* the locations lines 147-152 remove and disable
removed_of(locs, shs) ==
    {l \in shop_slots_of(locs) :
        ~can_push_inventory(shs[locs[l].parent_region], slot_num(locs[l])) \/ locs[l].shop_slot_disabled}

\* current_shop_slots (line 183) of a sphere
current_shop_slots(locs, sphere) ==
    SelectSeq(sphere, LAMBDA l : locs[l].shop_slot /\ ~locs[l].shop_slot_disabled)

(***************************************************************************)
(* SpecFill: the small world ShopSlotFill runs on.                         *)
(***************************************************************************)
Item(name, player) == [name |-> name, player |-> player]

\* a shop-slot location as create_shops leaves it
SlotLocation(slot, single, goal, rejects) ==
    [player |-> 1, parent_region |-> FillRegion, slot |-> slot, shop_slot |-> TRUE,
     locked |-> TRUE, shop_slot_disabled |-> ~single,
     item |-> Item(IF single THEN additional_item(goal) ELSE "Nothing", 1),
     rejects |-> rejects]

\* a location outside the shops
PlainLocation(item, locked, rejects) ==
    [player |-> 1, parent_region |-> "none", slot |-> 0, shop_slot |-> FALSE,
     locked |-> locked, shop_slot_disabled |-> FALSE, item |-> item, rejects |-> rejects]

\* the states create_shops and set_up_shops leave the second slot in: bonus item to place,
\* disabled, or a replacement already pushed into its slot of the inventory
SlotStates == {"single", "disabled", "pushed"}

\* the items the first plain location may hold
FirstItems == {Item("Bombs (3)", 1), Item("Good Bee", 2), Item("Bee", 1), Item("Rupees (20)", 1)}

\* the ordered partitions of the locations into NumSpheres spheres (a sphere may be empty);
\* the two slot locations and the two plain locations are each numbered in sphere order
SpherePartitions ==
    {[j \in 1 .. NumSpheres |-> {l \in LocIds : a[l] = j}] :
        a \in {b \in [LocIds -> 1 .. NumSpheres] : b["S1"] <= b["S2"] /\ b["L1"] <= b["L2"]}}

\* a world: goal, option string, state of the second slot, item of the first plain location,
\* whether the second plain location is locked, whether item rules reject anything
Scenario(goal, option, s2, i1, locked2, strict) ==
    [goal |-> goal, shop_shuffle |-> option, keyshuffle |-> "universal", s2 |-> s2, i1 |-> i1,
     locked2 |-> locked2, strict |-> strict]

PlainScenario == Scenario("ganon", {}, "single", Item("Bombs (3)", 1), FALSE, FALSE)

\* the respects in which a scenario differs from the plain one
Deviations(sc) ==
    {d \in {"goal", "shop_shuffle", "s2", "i1", "locked2", "strict"} : sc[d] # PlainScenario[d]}

\* the scenarios of SpecFill: those that differ from the plain one in at most two respects
FillScenarios ==
    {sc \in {Scenario(g, o, s2, i1, l2, st) :
                g \in Goals, o \in {{}, {"p"}}, s2 \in SlotStates, i1 \in FirstItems,
                l2 \in BOOLEAN, st \in BOOLEAN} :
        Cardinality(Deviations(sc)) <= 2}

InitLocations(sc) ==
    [l \in LocIds |->
        CASE l = "S1" -> SlotLocation(1, TRUE, sc.goal, IF sc.strict THEN {"Single Arrow"} ELSE {})
          [] l = "S2" -> SlotLocation(2, sc.s2 # "disabled", sc.goal, {})
          [] l = "L1" -> PlainLocation(sc.i1, FALSE,
                                       IF sc.strict THEN {"Rupees (50)", "Nothing"} ELSE {})
          [] l = "L2" -> PlainLocation(Item("Single Arrow", 1), sc.locked2, {})]

InitShops(sc) ==
    [r \in {FillRegion} |->
        LET inv == table_inventory(_basic_shop_defaults)
        IN  IF sc.s2 = "pushed"
            THEN [inv EXCEPT ![1] = push_entry(inv[1], "Single Arrow", 80, 1, 0)]
            ELSE inv]

FillStart(run) ==
    [pc |-> "start", run |-> run, candidates_per_sphere |-> <<>>, cumu_weights |-> <<>>,
     i |-> 0, current_shop_slots |-> <<>>, k |-> 0, eligible |-> {}, step |-> 0]

InitFillWith(scenarios, partitions, record) ==
    /\ IdleShop
    /\ IdlePrice
    /\ cs = Idle
    /\ upg = Idle
    /\ \E sc \in scenarios, sp \in partitions :
          /\ world = [spheres |-> sp, shop_shuffle |-> sc.shop_shuffle,
                      keyshuffle |-> sc.keyshuffle, goal |-> sc.goal]
          /\ locations = InitLocations(sc)
          /\ shops = InitShops(sc)
          /\ hist = [start |-> [locations |-> InitLocations(sc), shops |-> InitShops(sc)],
                     swaps |-> <<>>, tape |-> <<>>, record |-> record, first |-> Idle,
                     choice |-> Idle]
    /\ fill = FillStart(1)

InitFill == InitFillWith(FillScenarios, SpherePartitions, FALSE)

\* the random draw of a step: the recorded one when the pass is run again with the same seed
\* and the recorded draw is one this call can return, any of S otherwise
Draws(S) ==
    IF fill.run = 2 /\ fill.step + 1 <= Len(hist.tape) /\ hist.tape[fill.step + 1] \in S
    THEN {hist.tape[fill.step + 1]}
    ELSE S

RECURSIVE SeqsOver(_, _)
\* the sequences whose k-th entry is drawn from sets[k], for k in 1 .. n
SeqsOver(sets, n) ==
    IF n = 0 THEN {<<>>}
    ELSE {Append(r, x) : r \in SeqsOver(sets, n - 1), x \in sets[n]}

Taped(d) == IF hist.record THEN Append(hist.tape, d) ELSE hist.tape

\* lines 144-180: disable the slots that cannot be pushed, list and shuffle the spheres
fill_begin ==
    /\ fill.pc = "start"
    /\ LET removed == removed_of(locations, shops)
           shop_slots == shop_slots_of(locations) \ removed
           locs1 == [l \in LocIds |->
                        IF l \in removed THEN [locations[l] EXCEPT !.shop_slot_disabled = TRUE]
                        ELSE locations[l]]
       IN  /\ locations' = locs1
           /\ IF shop_slots = {}
              THEN /\ fill' = [fill EXCEPT !.pc = "done"]
                   /\ hist' = hist
              ELSE \E lists \in SeqsOver([j \in 1 .. NumSpheres |-> Orders(world.spheres[j])], NumSpheres) :
                   \E perms \in Draws(SeqsOver([j \in 1 .. NumSpheres |-> Perms(Len(lists[j]))], NumSpheres)) :
                      LET cps == [j \in 1 .. NumSpheres |-> Shuffled(lists[j], perms[j])]
                      IN  /\ fill' = [fill EXCEPT !.pc = "sphere", !.i = 0,
                                         !.candidates_per_sphere = cps,
                                         !.cumu_weights = cumu_weights_of(cps, NumSpheres),
                                         !.eligible = shop_slots,
                                         !.step = @ + 1]
                          /\ hist' = [hist EXCEPT !.tape = Taped(perms)]
    /\ UNCHANGED <<shops, world, shopVars, priceVars, cs, upg>>

\* line 182-184: the next sphere of the outer loop and its current_shop_slots
fill_sphere ==
    /\ \/ fill.pc = "sphere"
       \/ fill.pc = "slots" /\ fill.k > Len(fill.current_shop_slots)
    /\ IF fill.i + 1 > Len(fill.candidates_per_sphere)
       THEN fill' = [fill EXCEPT !.pc = "done"]
       ELSE fill' = [fill EXCEPT !.pc = "slots", !.i = @ + 1, !.k = 1,
                        !.current_shop_slots =
                            current_shop_slots(locations, fill.candidates_per_sphere[fill.i + 1])]
    /\ UNCHANGED <<locations, shops, hist, world, shopVars, priceVars, cs, upg>>

\* the draws return_funny_price makes: none unless the option string holds 'p' (line 214)
FunnyDraws ==
    IF "p" \in world.shop_shuffle
    THEN {[my_choices |-> c, roll |-> roll] : c \in FillSamples, roll \in FillRolls}
    ELSE {[my_choices |-> <<>>, roll |-> 0]}

\* the random draws of one slot: the choices draw r, the randrange draw, return_funny_price's draws
SlotDraws(total) ==
    {[r |-> r, pk |-> pk, my_choices |-> fd.my_choices, roll |-> fd.roll] :
        r \in 0 .. (total - 1), pk \in RangeDraws, fd \in FunnyDraws}

\* the draws of one slot when the pass is run again with the same seed: the choices draw is the
\* recorded one, and so are the price draws when the recorded step drew a price
SlotDrawsReplayed(total) ==
    IF fill.run = 2 /\ fill.step + 1 <= Len(hist.tape)
    THEN LET t == hist.tape[fill.step + 1]
         IN  {d \in SlotDraws(total) :
                 /\ d.r = t.r
                 /\ t.priced => d.pk = t.pk /\ d.my_choices = t.my_choices /\ d.roll = t.roll}
    ELSE SlotDraws(total)

\* lines 186-218: one shop-slot location of the current sphere
fill_slot ==
    /\ fill.pc = "slots"
    /\ fill.k <= Len(fill.current_shop_slots)
    /\ LET location == fill.current_shop_slots[fill.k]
           cw == cum_weights_slice(fill.cumu_weights, fill.i)
       IN  \E d \in SlotDrawsReplayed(cw[Len(cw)]) :
           LET j == fill.i + choices_index(cw, d.r) - 1
               swapping_sphere == fill.candidates_per_sphere[j]
               c == first_candidate(locations, swapping_sphere, location, 1)
           IN  IF c = "none"
               THEN /\ locations' = [locations EXCEPT ![location].shop_slot_disabled = TRUE]
                    /\ shops' = shops
                    /\ fill' = [fill EXCEPT !.k = @ + 1, !.step = @ + 1]
                    /\ hist' = [hist EXCEPT !.tape = Taped([r |-> d.r, priced |-> FALSE, pk |-> 0,
                                                            my_choices |-> <<>>, roll |-> 0]),
                                            !.choice = [location |-> location, i |-> fill.i, j |-> j]]
               ELSE LET locs1 == swap_location_item(locations, c, location)
                        loc == locs1[location]
                        item_name == loc.item.name
                        price == slot_price(item_name, world.shop_shuffle, world.keyshuffle, d)
                        inv == shops[loc.parent_region]
                    IN  /\ locations' = locs1
                        /\ IF inv[slot_num(loc)] = None
                           THEN \* push_inventory raises ValueError
                                /\ shops' = shops
                                /\ fill' = [fill EXCEPT !.pc = "raised", !.step = @ + 1]
                           ELSE /\ shops' = [shops EXCEPT ![loc.parent_region][slot_num(loc)] =
                                                push_entry(inv[slot_num(loc)], item_name, price, 1,
                                                           IF loc.item.player # loc.player
                                                           THEN loc.item.player ELSE 0)]
                                /\ fill' = [fill EXCEPT !.k = @ + 1, !.step = @ + 1]
                        /\ hist' = [hist EXCEPT
                                      !.tape = Taped([r |-> d.r, priced |-> TRUE, pk |-> d.pk,
                                                      my_choices |-> d.my_choices, roll |-> d.roll]),
                                      !.choice = [location |-> location, i |-> fill.i, j |-> j],
                                      !.swaps = Append(@,
                                          [c |-> c, location |-> location,
                                           item |-> locations[c].item.name,
                                           c_locked |-> locations[c].locked,
                                           c_shop_slot |-> locations[c].shop_slot,
                                           c_accepts |-> item_rule(locations[c], locations[location].item),
                                           location_accepts |-> item_rule(locations[location], locations[c].item)])]
    /\ UNCHANGED <<world, shopVars, priceVars, cs, upg>>

NextFill ==
    \/ fill_begin
    \/ fill_sphere
    \/ fill_slot

SpecFill == InitFill /\ [][NextFill]_vars

\* ShopSlotFill is called again on the state and with the seed of the first pass
fill_again ==
    /\ fill.pc = "done"
    /\ fill.run = 1
    /\ hist.record
    /\ hist' = [hist EXCEPT !.first = [locations |-> locations, shops |-> shops],
                            !.swaps = <<>>, !.choice = Idle]
    /\ locations' = hist.start.locations
    /\ shops' = hist.start.shops
    /\ fill' = FillStart(2)
    /\ UNCHANGED <<world, shopVars, priceVars, cs, upg>>

\* the scenarios of SpecRefill: the plain one, with and without funny prices
RefillScenarios ==
    {sc \in FillScenarios : \A d \in Deviations(sc) : d = "shop_shuffle"}

\* the sphere partitions of SpecRefill: no sphere holds more than two locations
RefillPartitions ==
    {sp \in SpherePartitions : \A j \in 1 .. NumSpheres : Cardinality(sp[j]) <= 2}

InitRefill == InitFillWith(RefillScenarios, RefillPartitions, TRUE)

NextRefill ==
    \/ fill_begin
    \/ fill_sphere
    \/ fill_slot
    \/ fill_again

SpecRefill == InitRefill /\ [][NextRefill]_vars

(***************************************************************************)
(* Claims about ShopSlotFill.                                              *)
(***************************************************************************)
\* the shop-slot locations eligible when the pass starts
EligibleAtStart ==
    {l \in LocIds :
        LET loc == hist.start.locations[l] IN
        /\ loc.shop_slot
        /\ ~loc.shop_slot_disabled
        /\ hist.start.shops[loc.parent_region][loc.slot - 1] # None
        /\ ~Truthy(hist.start.shops[loc.parent_region][loc.slot - 1].replacement)}

SwapsOf(l) == {k \in 1 .. Len(hist.swaps) : hist.swaps[k].location = l}

\* C4 as amended: every swap moves into the shop slot an item whose name is
\* not in the fixed blacklist (the names containing "Rupee", and the name
\* "Bee" itself), from a candidate that is neither locked nor a shop slot,
\* and the acceptance rule holds in both directions.
C4_SwapsRespectRules ==
    \A k \in 1 .. Len(hist.swaps) :
        LET sw == hist.swaps[k] IN
        /\ ~Contains(sw.item, "Rupee")
        /\ sw.item # "Bee"
        /\ ~sw.c_locked
        /\ ~sw.c_shop_slot
        /\ sw.c_accepts
        /\ sw.location_accepts

\* a swap has moved "Good Bee" into a shop slot, and the shop sells it
C4_Witness ==
    \E k \in 1 .. Len(hist.swaps) :
        /\ hist.swaps[k].item = "Good Bee"
        /\ locations[hist.swaps[k].location].item.name = "Good Bee"
        /\ \E x \in SlotIdx : shops[FillRegion][x].item = "Good Bee"

\* C4 as stated: no item whose name contains a blacklisted word ("Rupee",
\* "Bee") is moved into a shop slot, the candidate is neither locked nor a
\* shop slot, and the acceptance rule holds in both directions.
C4_Original ==
    \A k \in 1 .. Len(hist.swaps) :
        LET sw == hist.swaps[k] IN
        /\ ~Contains(sw.item, "Rupee")
        /\ ~Contains(sw.item, "Bee")
        /\ ~sw.c_locked
        /\ ~sw.c_shop_slot
        /\ sw.c_accepts
        /\ sw.location_accepts

\* the slot of location l was swapped once and pushed once
Filled(l) ==
    LET loc == locations[l]
        old == hist.start.shops[loc.parent_region][loc.slot - 1]
        new == shops[loc.parent_region][loc.slot - 1]
    IN  /\ ~loc.shop_slot_disabled
        /\ Cardinality(SwapsOf(l)) = 1
        /\ \A k \in SwapsOf(l) : loc.item.name = hist.swaps[k].item
        /\ new.item = loc.item.name
        /\ new.max = 1
        /\ new.replacement = old.item
        /\ new.replacement_price = old.price
        /\ new.create_location = old.create_location

\* the slot of location l was given up: disabled, its inventory slot untouched
Disabled(l) ==
    LET loc == locations[l]
    IN  /\ loc.shop_slot_disabled
        /\ SwapsOf(l) = {}
        /\ shops[loc.parent_region][loc.slot - 1] = hist.start.shops[loc.parent_region][loc.slot - 1]
        /\ loc.item = hist.start.locations[l].item

\* C5: when ShopSlotFill returns, every shop-slot location eligible at the
\* start was either swapped with one candidate and pushed once, or is
\* disabled with its inventory slot unchanged; the pass never raises.
C5_EverySlotSettled ==
    /\ fill.pc # "raised"
    /\ fill.pc = "done" => \A l \in EligibleAtStart : Filled(l) \/ Disabled(l)

\* the pass has returned with one eligible slot filled and the other given up
C5_Witness ==
    /\ fill.pc = "done"
    /\ \E l1, l2 \in EligibleAtStart : Filled(l1) /\ Disabled(l2) /\ SwapsOf(l2) = {}

\* C6: within one pass no location is the swap partner of two shop slots.
C6_NoCandidateTwice ==
    \A k1, k2 \in 1 .. Len(hist.swaps) : k1 # k2 => hist.swaps[k1].c # hist.swaps[k2].c

\* C7: two passes from the same state, sphere partition and seed end with
\* the same shop inventories, location items and shop_slot_disabled flags.
C7_Deterministic ==
    fill.run = 2 /\ fill.pc = "done" =>
        [locations |-> locations, shops |-> shops] = hist.first

\* the number of outcomes of floor(random() * total) for which the pool of a slot in sphere i
\* is sphere j
PoolWeight(i, j) ==
    LET cw == cum_weights_slice(fill.cumu_weights, i)
    IN  Cardinality({r \in 0 .. (cw[Len(cw)] - 1) : i + choices_index(cw, r) - 1 = j})

\* the number of locations in spheres i .. last
SizeFrom(i) ==
    SumOver([j \in 1 .. NumSpheres |-> IF j >= i THEN Len(fill.candidates_per_sphere[j]) ELSE 0],
            NumSpheres)

\* C10: the pool of a slot found in sphere i is never an earlier sphere, and
\* sphere j of i .. last is chosen with the weight of its own size: with
\* probability len(sphere j) / (number of locations in spheres i .. last).
C10_PoolWeights ==
    hist.choice # Idle =>
        /\ hist.choice.j >= hist.choice.i
        /\ \A j \in hist.choice.i .. NumSpheres :
              LET cw == cum_weights_slice(fill.cumu_weights, hist.choice.i)
              IN  PoolWeight(hist.choice.i, j) * SizeFrom(hist.choice.i)
                    = Len(fill.candidates_per_sphere[j]) * cw[Len(cw)]

====
